---- MODULE Spec2Model ----
(***************************************************************************)
(* Model of pandas/core/daterange.py: the lazy generator XDateRange and    *)
(* the materialized, cache-backed DateRange.                               *)
(*                                                                         *)
(* A datetime is an integer count of ticks, TicksPerDay ticks to the day,  *)
(* tick 0 of a day being midnight.  Day 0 is a Monday.  The cache window   *)
(* 1950-01-01 (a Sunday) .. 2030-01-01 (a Tuesday) is scaled down to       *)
(* Sunday day 6 .. Tuesday day 15.                                         *)
(*                                                                         *)
(* pandas.core.datetools is not among the sources; the offsets below model *)
(* the offset capability of spec.md sections 3 and 6.                      *)
(***************************************************************************)
EXTENDS Integers, Sequences, FiniteSets

VARIABLES
    cache,      \* DateRange._cache: offset -> canonical DateRange
    builds,     \* per offset, how many times a canonical sequence was built
    call,       \* arguments of the call being made
    pc,         \* "ready": call not made yet, "done": call returned or raised
    ret,        \* what the last call returned or raised
    r,          \* the DateRange the program holds and slices / shifts
    lastOp,     \* the last operation, its integer argument, the cache key it used
    hops,       \* slices and shifts applied since r was constructed
    th          \* per thread: position inside getCachedRange, locals, result

vars == <<cache, builds, call, pc, ret, r, lastOp, hops, th>>

-----------------------------------------------------------------------------
(* Bounds of the model. *)

TicksPerDay == 2
MinDay == 3
MaxDay == 17
MaxPeriods == 2
MaxN == 2

(* Python's None for an absent date or period count. *)
None == -1000

(* CACHE_START and CACHE_END, in days. *)
CacheStartDay == 6
CacheEndDay == 15

-----------------------------------------------------------------------------
(* datetools: dates and offsets. *)

NoOffset == [cls |-> "None", n |-> 0]

Classes == {"BDay", "Week", "Tick"}

Offsets == {[cls |-> c, n |-> k] : c \in Classes, k \in 1..MaxN}

bday == [cls |-> "BDay", n |-> 1]

TimeRules == {"WEEKDAY", "W@FRI"}

NoRule == "None"

getOffset(timeRule) ==
    IF timeRule = "WEEKDAY" THEN [cls |-> "BDay", n |-> 1]
                            ELSE [cls |-> "Week", n |-> 1]

normalize_date(d) == d - (d % TicksPerDay)

weekday(d) == (d \div TicksPerDay) % 7

onOffset(offset, d) ==
    CASE offset.cls = "BDay" -> weekday(d) < 5
      [] offset.cls = "Week" -> weekday(d) = 4
      [] OTHER -> TRUE

normalizeFirst(offset) == offset.cls \in {"BDay", "Week"}

isAnchored(offset) == offset.n = 1

isTick(offset) == offset.cls = "Tick"

(* One grid step forward / backward; the time of day is kept. *)
RECURSIVE StepForward(_, _)
StepForward(offset, d) ==
    IF offset.cls = "Tick" THEN d + 1
    ELSE LET e == d + TicksPerDay
         IN  IF onOffset(offset, e) THEN e ELSE StepForward(offset, e)

RECURSIVE StepBackward(_, _)
StepBackward(offset, d) ==
    IF offset.cls = "Tick" THEN d - 1
    ELSE LET e == d - TicksPerDay
         IN  IF onOffset(offset, e) THEN e ELSE StepBackward(offset, e)

RECURSIVE Steps(_, _, _)
Steps(offset, k, d) ==
    IF k = 0 THEN d
    ELSE IF k > 0 THEN Steps(offset, k - 1, StepForward(offset, d))
    ELSE Steps(offset, k + 1, StepBackward(offset, d))

(* date + offset, date - offset, k * offset, offset.__class__(n=1, **kwds) *)
Add(d, offset) == Steps(offset, offset.n, d)

Sub(d, offset) == Steps(offset, 0 - offset.n, d)

Mul(k, offset) == [offset EXCEPT !.n = k * offset.n]

One(offset) == [offset EXCEPT !.n = 1]

rollforward(offset, d) == IF onOffset(offset, d) THEN d ELSE Add(d, One(offset))

rollback(offset, d) == IF onOffset(offset, d) THEN d ELSE Sub(d, One(offset))

-----------------------------------------------------------------------------
(* XDateRange *)

Raised(exc) == [status |-> "raise", exc |-> exc, offset |-> NoOffset,
                fromDate |-> None, toDate |-> None, nPeriods |-> None]

(* XDateRange.__init__, lines 64-74: the missing boundary is derived from *)
(* the other one and nPeriods; the generator's fields, or the exception.  *)
Derive(fromDate, toDate, nPeriods, offset) ==
    IF toDate = None /\ (nPeriods = None \/ fromDate = None) THEN Raised("TypeError")
    ELSE IF fromDate = None /\ nPeriods = None THEN Raised("TypeError")
    ELSE [status   |-> "ok", exc |-> "", offset |-> offset,
          fromDate |-> IF fromDate = None
                       THEN Sub(toDate, Mul(nPeriods - 1, offset)) ELSE fromDate,
          toDate   |-> IF toDate = None
                       THEN Add(fromDate, Mul(nPeriods - 1, offset)) ELSE toDate,
          nPeriods |-> nPeriods]

(* lines 60-62, inside the branch that snapped toDate back: toDate <       *)
(* fromDate is compared only when nPeriods == None, and a datetime does    *)
(* not compare with None.                                                  *)
Collapse(fromDate, toDate, snapped, nPeriods, offset) ==
    IF snapped /\ nPeriods = None /\ fromDate = None THEN Raised("TypeError")
    ELSE IF snapped /\ nPeriods = None /\ toDate < fromDate
    THEN Derive(fromDate, None, 0, offset)
    ELSE Derive(fromDate, toDate, nPeriods, offset)

(* lines 56-59 *)
Snap(fromDate, toDate, nPeriods, offset) ==
    Collapse(IF fromDate # None /\ ~onOffset(offset, fromDate)
             THEN Add(fromDate, One(offset)) ELSE fromDate,
             IF toDate # None /\ ~onOffset(offset, toDate)
             THEN Sub(toDate, One(offset)) ELSE toDate,
             toDate # None /\ ~onOffset(offset, toDate),
             nPeriods, offset)

(* XDateRange.__init__, lines 46-47: a timeRule replaces the offset. *)
XDateRange(fromDate, toDate, nPeriods, offset, timeRule) ==
    Snap(fromDate, toDate, nPeriods,
         IF timeRule # NoRule THEN getOffset(timeRule) ELSE offset)

(* XDateRange.__iter__, run to exhaustion: list(xdr). *)
RECURSIVE IterFrom(_, _, _)
IterFrom(cur, toDate, offset) ==
    IF cur <= toDate THEN <<cur>> \o IterFrom(Add(cur, offset), toDate, offset)
                     ELSE <<>>

list(xdr) ==
    IterFrom(IF normalizeFirst(xdr.offset) THEN normalize_date(xdr.fromDate)
                                           ELSE xdr.fromDate,
             xdr.toDate, xdr.offset)

-----------------------------------------------------------------------------
(* DateRange *)

CACHE_START == CacheStartDay * TicksPerDay

CACHE_END == CacheEndDay * TicksPerDay

(* A DateRange object (or the exception raised in its place): its dates,   *)
(* its offset attribute and _parent, the identity of the canonical range   *)
(* it was sliced from (0: no parent).  A canonical range is identified by  *)
(* its offset and by which build of that offset's sequence it is.          *)
Range(elems, offset, parent) ==
    [status |-> "ok", exc |-> "", elems |-> elems, offset |-> offset,
     parent |-> parent]

Raise(exc) ==
    [status |-> "raise", exc |-> exc, elems |-> <<>>, offset |-> NoOffset,
     parent |-> 0]

NoRange == 
    [status |-> "none", exc |-> "", elems |-> <<>>, offset |-> NoOffset,
     parent |-> 0]

(* Index.indexMap: date -> position, counted from 0. *)
InIndex(elems, d) == \E i \in 1..Len(elems) : elems[i] = d

indexMap(elems, d) == (CHOOSE i \in 1..Len(elems) : elems[i] = d) - 1

(* ndarray slicing: slice(start, stop, step).indices(len), then the walk. *)
Clamp(x, lo, hi) == IF x < lo THEN lo ELSE IF x > hi THEN hi ELSE x

SliceBound(x, len, step, dflt) ==
    IF x = None THEN dflt
    ELSE Clamp(IF x < 0 THEN x + len ELSE x,
               IF step > 0 THEN 0 ELSE 0 - 1,
               IF step > 0 THEN len ELSE len - 1)

RECURSIVE Walk(_, _, _, _)
Walk(elems, i, stop, step) ==
    IF (step > 0 /\ i < stop) \/ (step < 0 /\ i > stop)
    THEN <<elems[i + 1]>> \o Walk(elems, i + step, stop, step)
    ELSE <<>>

ArraySlice(elems, start, stop, step) ==
    Walk(elems,
         SliceBound(start, Len(elems), step, IF step > 0 THEN 0 ELSE Len(elems) - 1),
         SliceBound(stop, Len(elems), step, IF step > 0 THEN Len(elems) ELSE 0 - 1),
         step)

(* DateRange.__getitem__ with a slice key: the result is a fresh view, its *)
(* offset rescaled by the step when there is one.                          *)
getitem(self, start, stop, step) ==
    IF step = 0 THEN Raise("ValueError")
    ELSE IF step = None THEN Range(ArraySlice(self.elems, start, stop, 1), self.offset, 0)
    ELSE Range(ArraySlice(self.elems, start, stop, step), Mul(step, self.offset), 0)

(* DateRange.__getslice__, reached by self[i:j]: the interpreter has added *)
(* len(self) to a negative i or j before the call.                         *)
getslice(self, i, j) ==
    getitem(self, IF i # None /\ i < 0 THEN i + Len(self.elems) ELSE i,
                  IF j # None /\ j < 0 THEN j + Len(self.elems) ELSE j, None)

(* Lines 180-189: is the canonical range of this offset there, and its build. *)
InCacheNever(offset, c) == FALSE

InCache(offset, c) == offset \in DOMAIN c

Canonical(offset, id) ==
    [elems |-> list(XDateRange(CACHE_START, CACHE_END, None, offset, NoRule)),
     offset |-> offset, id |-> id]

Store(c, offset, cachedRange) ==
    [o \in DOMAIN c \cup {offset} |-> IF o = offset THEN cachedRange ELSE c[o]]

(* Lines 219-222: the slice, with the canonical range as its _parent. *)
Cut(cachedRange, startLoc, endLoc) ==
    [getslice(cachedRange, startLoc, endLoc) EXCEPT !.parent = cachedRange.id]

(* Lines 199-202, end already rolled back. *)
LocateEnd(cachedRange, end, periods) ==
    IF ~InIndex(cachedRange.elems, end) THEN Raise("KeyError")
    ELSE Cut(cachedRange, indexMap(cachedRange.elems, end) + 1 - periods,
                          indexMap(cachedRange.elems, end) + 1)

(* Lines 207-211, start already rolled forward. *)
LocateStart(cachedRange, start, periods) ==
    IF ~InIndex(cachedRange.elems, start) THEN Raise("KeyError")
    ELSE IF periods = None THEN Raise("Exception")
    ELSE Cut(cachedRange, indexMap(cachedRange.elems, start),
                          indexMap(cachedRange.elems, start) + periods)

(* Lines 216-217, start rolled forward and end rolled back. *)
LocateBoth(cachedRange, start, end) ==
    IF ~InIndex(cachedRange.elems, start) \/ ~InIndex(cachedRange.elems, end)
    THEN Raise("KeyError")
    ELSE Cut(cachedRange, indexMap(cachedRange.elems, start),
                          indexMap(cachedRange.elems, end) + 1)

(* Lines 191-222: the slice of the canonical range that answers the request. *)
Locate(cachedRange, start, end, periods, offset) ==
    IF start = None THEN
        IF end = None THEN Raise("Exception")
        ELSE IF periods = None THEN Raise("Exception")
        ELSE LocateEnd(cachedRange, rollback(offset, end), periods)
    ELSE IF end = None THEN
        LocateStart(cachedRange, rollforward(offset, start), periods)
    ELSE
        LocateBoth(cachedRange, rollforward(offset, start), rollback(offset, end))

(* Lines 181-187: the canonical range is built, stored and sliced. *)
Populate(c, b, cachedRange, start, end, periods, offset) ==
    [ret    |-> Locate(cachedRange, start, end, periods, offset),
     cache  |-> Store(c, offset, cachedRange),
     builds |-> [b EXCEPT ![offset] = @ + 1],
     key    |-> offset, hit |-> FALSE]

(* Lines 177-222, the offset resolved.  A canonical range is identified by *)
(* which build of its offset's sequence it is.                             *)
Lookup(c, b, start, end, periods, offset) ==
    IF offset = NoOffset
    THEN [ret |-> Raise("Exception"), cache |-> c, builds |-> b,
          key |-> NoOffset, hit |-> FALSE]
    ELSE IF ~InCache(offset, c)
    THEN Populate(c, b, Canonical(offset, b[offset] + 1), start, end, periods, offset)
    ELSE [ret    |-> Locate(c[offset], start, end, periods, offset),
          cache  |-> c, builds |-> b, key |-> offset, hit |-> TRUE]

(* DateRange.getCachedRange: the result, the class state it leaves, key,   *)
(* the offset whose cache entry it consulted (NoOffset: none), and hit,    *)
(* whether that entry was there already.                                   *)
getCachedRange(c, b, start, end, periods, offset, timeRule) ==
    Lookup(c, b, start, end, periods,
           IF timeRule # NoRule THEN getOffset(timeRule) ELSE offset)

(* Lines 151-158: the generator run to exhaustion, tagged with the offset  *)
(* that was passed to __new__.                                             *)
Uncached(c, b, xdr, offset) ==
    [ret    |-> IF xdr.status = "raise" THEN Raise(xdr.exc)
                ELSE Range(list(xdr), offset, 0),
     cache  |-> c, builds |-> b, key |-> NoOffset, hit |-> FALSE]

(* Lines 139-158. *)
Route(c, b, fromDate, toDate, periods, offset, timeRule) ==
    IF /\ fromDate # None /\ fromDate > CACHE_START
       /\ toDate # None /\ toDate < CACHE_END
       /\ isAnchored(offset) /\ ~isTick(offset)
    THEN getCachedRange(c, b, fromDate, toDate, periods, offset, timeRule)
    ELSE Uncached(c, b, XDateRange(fromDate, toDate, periods, offset, timeRule), offset)

(* DateRange.__new__ without the index= escape hatch and without aliases:  *)
(* "if not periods" turns a period count of 0 into kwds.get('nPeriods').   *)
DateRange(c, b, fromDate, toDate, periods, offset, timeRule) ==
    Route(c, b, fromDate, toDate,
          IF periods = None \/ periods = 0 THEN None ELSE periods, offset, timeRule)

(* The DateRange(fromDate=start, periods=n) and DateRange(toDate=end,      *)
(* periods=-n) of shift: offset and timeRule are the defaults of __new__.  *)
NewDefault(fromDate, toDate, periods) ==
    DateRange(<<>>, <<>>, fromDate, toDate, periods, bday, NoRule).ret

(* np.concatenate((a, b)).view(DateRange), then newArr.offset = offset. *)
Concatenate(a, b, offset) ==
    IF a.status = "raise" THEN a
    ELSE IF b.status = "raise" THEN b
    ELSE Range(a.elems \o b.elems, offset, 0)

(* DateRange.shift *)
shift(self, n) ==
    IF n > 0 THEN
        IF Len(self.elems) = 0 THEN Raise("IndexError")
        ELSE Concatenate(getslice(self, n, None),
                         NewDefault(Add(self.elems[Len(self.elems)], self.offset), None, n),
                         self.offset)
    ELSE IF n < 0 THEN
        IF Len(self.elems) = 0 THEN Raise("IndexError")
        ELSE Concatenate(NewDefault(None, Sub(self.elems[1], self.offset), 0 - n),
                         getslice(self, None, n),
                         self.offset)
    ELSE self

-----------------------------------------------------------------------------
(* The state before any call: an empty cache, nothing held. *)

Dates == {None} \cup (MinDay * TicksPerDay .. MaxDay * TicksPerDay + TicksPerDay - 1)

Periods == {None} \cup 0..MaxPeriods

Rules == {NoRule} \cup TimeRules

NoCall == [op |-> "none", fromDate |-> None, toDate |-> None, periods |-> None,
           offset |-> NoOffset, timeRule |-> NoRule]

Idle == [pc |-> "idle", offset |-> NoOffset, start |-> None, end |-> None,
         cachedRange |-> [elems |-> <<>>, offset |-> NoOffset, id |-> 0],
         ret |-> NoRange]

Fresh ==
    /\ cache = <<>>
    /\ builds = [o \in Offsets |-> 0]
    /\ ret = NoRange
    /\ r = NoRange
    /\ lastOp = [op |-> "none", n |-> 0, key |-> NoOffset, hit |-> FALSE]
    /\ hops = 0
    /\ th = [t \in {1, 2} |-> Idle]

-----------------------------------------------------------------------------
(* SpecCall: one call, with any arguments, made in a fresh process. *)

Calls ==
    {[op |-> o, fromDate |-> f, toDate |-> t, periods |-> p, offset |-> off,
      timeRule |-> tr] :
        o \in {"XDateRange", "DateRange", "getCachedRange"},
        f \in Dates, t \in Dates, p \in Periods, off \in Offsets, tr \in Rules}

(* The offset a call's timeRule and offset arguments resolve to. *)
Effective(c) == IF c.timeRule # NoRule THEN getOffset(c.timeRule) ELSE c.offset

InitCall ==
    /\ Fresh
    /\ call \in Calls
    /\ pc = "ready"

(* The call returns res.ret and leaves the class state of res. *)
Returned(res) ==
    /\ ret' = res.ret
    /\ cache' = res.cache
    /\ builds' = res.builds
    /\ pc' = "done"
    /\ UNCHANGED <<call, r, lastOp, hops, th>>

(* list(XDateRange(fromDate, toDate, nPeriods, offset, timeRule)) *)
CallXDateRange ==
    /\ pc = "ready" /\ call.op = "XDateRange"
    /\ Returned(Uncached(cache, builds,
                         XDateRange(call.fromDate, call.toDate, call.periods,
                                    call.offset, call.timeRule),
                         Effective(call)))

(* DateRange(fromDate, toDate, periods, offset, timeRule) *)
CallDateRange ==
    /\ pc = "ready" /\ call.op = "DateRange"
    /\ Returned(DateRange(cache, builds, call.fromDate, call.toDate, call.periods,
                          call.offset, call.timeRule))

(* DateRange.getCachedRange(start, end, periods, offset, timeRule) *)
CallGetCachedRange ==
    /\ pc = "ready" /\ call.op = "getCachedRange"
    /\ Returned(getCachedRange(cache, builds, call.fromDate, call.toDate,
                               call.periods, call.offset, call.timeRule))

NextCall == CallXDateRange \/ CallDateRange \/ CallGetCachedRange

SpecCall == InitCall /\ [][NextCall]_vars

-----------------------------------------------------------------------------
(* Spec: a single-threaded program that constructs ranges, looks them up   *)
(* in the cache, and slices and shifts the range it holds, in any order.   *)

MaxIndex == 1
MaxStep == 2
MaxShift == 2
MaxHops == 1

HeldDates ==
    {None, (CacheStartDay + 2) * TicksPerDay, (CacheEndDay - 1) * TicksPerDay}

HeldPeriods == {None, MaxPeriods}

HeldOffsets == {o \in Offsets : isAnchored(o) /\ ~isTick(o)}

HeldRules == {NoRule, "W@FRI"}

Indices == {None} \cup (0 - MaxIndex)..MaxIndex

(* The dates and offset multiples a held range may reach. *)
InBounds(x) ==
    /\ x.offset.n <= MaxN * MaxStep /\ 0 - x.offset.n <= MaxN * MaxStep
    /\ \A i \in 1..Len(x.elems) :
          MinDay * TicksPerDay <= x.elems[i] /\ x.elems[i] <= (MaxDay + 1) * TicksPerDay

Init ==
    /\ Fresh
    /\ call = NoCall
    /\ pc = "idle"

(* The program holds what a construction returned (or raised). *)
Constructed(res, op) ==
    /\ InBounds(res.ret)
    /\ r' = res.ret
    /\ cache' = res.cache
    /\ builds' = res.builds
    /\ lastOp' = [op |-> op, n |-> 0, key |-> res.key, hit |-> res.hit]
    /\ hops' = 0
    /\ UNCHANGED <<call, pc, ret, th>>

(* The program holds what an operation on r returned (or raised). *)
Derived(res, op, n) ==
    /\ InBounds(res)
    /\ r' = res
    /\ lastOp' = [op |-> op, n |-> n, key |-> NoOffset, hit |-> FALSE]
    /\ hops' = hops + 1
    /\ UNCHANGED <<cache, builds, call, pc, ret, th>>

(* r = DateRange(fromDate, toDate, periods, offset, timeRule) *)
NewDateRange(fromDate, toDate, periods, offset, timeRule) ==
    Constructed(DateRange(cache, builds, fromDate, toDate, periods, offset, timeRule),
                "DateRange")

(* r = DateRange.getCachedRange(start, end, periods, offset, timeRule) *)
LookupCachedRange(start, end, periods, offset, timeRule) ==
    Constructed(getCachedRange(cache, builds, start, end, periods, offset, timeRule),
                "getCachedRange")

(* r = r[i:j] *)
Slice(i, j) ==
    /\ r.status = "ok" /\ hops < MaxHops
    /\ Derived(getslice(r, i, j), "getslice", 0)

(* r = r[i:j:step] *)
SliceStep(i, j, step) ==
    /\ r.status = "ok" /\ hops < MaxHops
    /\ Derived(getitem(r, i, j, step), "getitem", step)

(* r = r.shift(n) *)
Shift(n) ==
    /\ r.status = "ok" /\ hops < MaxHops
    /\ Derived(shift(r, n), "shift", n)

Next ==
    \/ \E f \in HeldDates, t \in HeldDates, p \in HeldPeriods, off \in HeldOffsets,
          tr \in HeldRules : NewDateRange(f, t, p, off, tr)
    \/ \E f \in HeldDates, t \in HeldDates, p \in HeldPeriods,
          off \in HeldOffsets \cup {NoOffset}, tr \in HeldRules :
            LookupCachedRange(f, t, p, off, tr)
    \/ \E i \in Indices, j \in Indices : Slice(i, j)
    \/ \E i \in Indices, j \in Indices, step \in (0 - MaxStep)..MaxStep :
            SliceStep(i, j, step)
    \/ \E n \in (0 - MaxShift)..MaxShift : Shift(n)

Spec == Init /\ [][Next]_vars

-----------------------------------------------------------------------------
(* SpecThreads: two threads, each inside one getCachedRange(start, end,    *)
(* offset=offset) call on a cache that holds nothing yet.  The class has   *)
(* no lock, and the interpreter may switch threads between the membership  *)
(* test of line 180, the build of lines 181-185, the store of line 187 and *)
(* the slicing of lines 191-222.                                           *)

Threads == {1, 2}

ThreadDates == HeldDates \ {None}

Requests ==
    {[pc |-> "check", offset |-> off, start |-> s, end |-> e,
      cachedRange |-> Idle.cachedRange, ret |-> NoRange] :
        off \in HeldOffsets, s \in ThreadDates, e \in ThreadDates}

InitThreads ==
    /\ cache = <<>>
    /\ builds = [o \in Offsets |-> 0]
    /\ call = NoCall
    /\ pc = "threads"
    /\ ret = NoRange
    /\ r = NoRange
    /\ lastOp = [op |-> "none", n |-> 0, key |-> NoOffset, hit |-> FALSE]
    /\ hops = 0
    /\ th \in [Threads -> Requests]

(* line 180 *)
TCheck(t) ==
    /\ th[t].pc = "check"
    /\ th' = [th EXCEPT ![t].pc =
                 IF InCache(th[t].offset, cache) THEN "load" ELSE "build"]
    /\ UNCHANGED <<cache, builds, call, pc, ret, r, lastOp, hops>>

(* lines 181-185 *)
TBuild(t) ==
    /\ th[t].pc = "build"
    /\ builds' = [builds EXCEPT ![th[t].offset] = @ + 1]
    /\ th' = [th EXCEPT ![t].cachedRange = Canonical(th[t].offset, builds'[th[t].offset]),
                        ![t].pc = "store"]
    /\ UNCHANGED <<cache, call, pc, ret, r, lastOp, hops>>

(* line 187 *)
TStore(t) ==
    /\ th[t].pc = "store"
    /\ cache' = Store(cache, th[t].offset, th[t].cachedRange)
    /\ th' = [th EXCEPT ![t].pc = "slice"]
    /\ UNCHANGED <<builds, call, pc, ret, r, lastOp, hops>>

(* line 189 *)
TLoad(t) ==
    /\ th[t].pc = "load"
    /\ th' = [th EXCEPT ![t].cachedRange = cache[th[t].offset], ![t].pc = "slice"]
    /\ UNCHANGED <<cache, builds, call, pc, ret, r, lastOp, hops>>

(* lines 191-222 *)
TSlice(t) ==
    /\ th[t].pc = "slice"
    /\ th' = [th EXCEPT ![t].ret = Locate(th[t].cachedRange, th[t].start, th[t].end,
                                          None, th[t].offset),
                        ![t].pc = "done"]
    /\ UNCHANGED <<cache, builds, call, pc, ret, r, lastOp, hops>>

NextThreads ==
    \E t \in Threads : TCheck(t) \/ TBuild(t) \/ TStore(t) \/ TLoad(t) \/ TSlice(t)

SpecThreads == InitThreads /\ [][NextThreads]_vars

-----------------------------------------------------------------------------
(* Helpers of the claims. *)

Min(a, b) == IF a < b THEN a ELSE b

(* Each element is one step of offset after the one before it. *)
Stepwise(elems, offset) ==
    \A i \in 1..Len(elems) - 1 : elems[i + 1] = Add(elems[i], offset)

OnGrid(elems, offset) == \A i \in 1..Len(elems) : onOffset(offset, elems[i])

Increasing(elems) == \A i \in 1..Len(elems) - 1 : elems[i] < elems[i + 1]

(* __new__ hands the request to getCachedRange. *)
RoutedToCache(c) ==
    /\ c.fromDate # None /\ c.fromDate > CACHE_START
    /\ c.toDate # None /\ c.toDate < CACHE_END
    /\ isAnchored(c.offset) /\ ~isTick(c.offset)

-----------------------------------------------------------------------------
(* Claims checked under SpecCall. *)

(* C1: an XDateRange built with both fromDate and toDate yields only dates *)
(* d with fromDate <= d <= toDate (the supplied boundaries), each on the   *)
(* offset's grid, also for offsets that normalize the start to midnight.   *)
C1_YieldedWithinBoundaries ==
    (/\ pc = "done" /\ call.op = "XDateRange"
     /\ call.fromDate # None /\ call.toDate # None /\ ret.status = "ok")
    => \A i \in 1..Len(ret.elems) :
          /\ call.fromDate <= ret.elems[i]
          /\ ret.elems[i] <= call.toDate
          /\ onOffset(ret.offset, ret.elems[i])

(* C2: fromDate with a period count k >= 0 and no toDate, through          *)
(* XDateRange(nPeriods=k) or DateRange(periods=k), gives exactly k dates   *)
(* and never an error: the first is fromDate snapped forward to the grid,  *)
(* each next one is one offset step later.                                 *)
C2_ExactlyKPeriods ==
    (/\ pc = "done" /\ call.op \in {"XDateRange", "DateRange"}
     /\ call.fromDate # None /\ call.toDate = None /\ call.periods # None)
    => /\ ret.status = "ok"
       /\ Len(ret.elems) = call.periods
       /\ Len(ret.elems) > 0 =>
             ret.elems[1] = rollforward(Effective(call), call.fromDate)
       /\ Stepwise(ret.elems, Effective(call))

(* C3: with both boundaries and no period count, when toDate snapped back  *)
(* is earlier than fromDate snapped forward the result is a zero-length    *)
(* range and never an error, on every construction path.                   *)
C3_EmptyRangeCollapse ==
    (/\ pc = "done" /\ call.op \in {"XDateRange", "DateRange", "getCachedRange"}
     /\ call.fromDate # None /\ call.toDate # None /\ call.periods = None
     /\ rollback(Effective(call), call.toDate)
            < rollforward(Effective(call), call.fromDate))
    => ret.status = "ok" /\ Len(ret.elems) = 0

(* C7: DateRange built with a timeRule: the named rule wins, the dates lie *)
(* on the named rule's offset and the result's offset attribute is that    *)
(* resolved offset, on the cached and on the uncached path.                *)
C7_NamedRuleWins ==
    (/\ pc = "done" /\ call.op = "DateRange"
     /\ call.timeRule # NoRule /\ ret.status = "ok")
    => /\ ret.offset = getOffset(call.timeRule)
       /\ OnGrid(ret.elems, getOffset(call.timeRule))
       /\ Stepwise(ret.elems, getOffset(call.timeRule))

(* C9: getCachedRange with only end and a period count p returns a         *)
(* contiguous run of the canonical sequence ending at end rolled back to   *)
(* the grid, of min(p, position(end) + 1) dates: a startLoc before the     *)
(* beginning is clamped to the beginning.                                  *)
C9_EndAndPeriodsClamped ==
    (/\ pc = "done" /\ call.op = "getCachedRange"
     /\ call.fromDate = None /\ call.toDate # None /\ call.periods # None
     /\ ret.status = "ok")
    => LET offset == Effective(call)
           end    == rollback(offset, call.toDate)
           canon  == cache[offset].elems
           pos    == indexMap(canon, end)
           k      == Min(call.periods, pos + 1)
       IN  /\ Len(ret.elems) = k
           /\ \A i \in 1..Len(ret.elems) : ret.elems[i] = canon[pos + 1 - k + i]

(* C10: a request that __new__ routes to the cache has the outcome of      *)
(* materializing XDateRange for the same fromDate, toDate and offset: the  *)
(* same dates in the same order, failing only where the generator fails.   *)
C10_CacheEqualsGenerator ==
    (pc = "done" /\ call.op = "DateRange" /\ RoutedToCache(call))
    => LET xdr == XDateRange(call.fromDate, call.toDate,
                             IF call.periods = 0 THEN None ELSE call.periods,
                             call.offset, call.timeRule)
       IN  IF xdr.status = "raise" THEN ret.status = "raise"
           ELSE ret.status = "ok" /\ ret.elems = list(xdr)

-----------------------------------------------------------------------------
(* Claims checked under Spec. *)

(* C4: over any sequence of single-threaded construction and               *)
(* getCachedRange calls the canonical sequence of an offset is built at    *)
(* most once: the first request for an offset adds its entry to            *)
(* DateRange._cache, every later request reuses that same entry, and no    *)
(* operation replaces or removes an entry.                                 *)
C4_CanonicalBuiltOnce ==
    [][/\ \A o \in DOMAIN cache : o \in DOMAIN cache' /\ cache'[o] = cache[o]
       /\ \A o \in Offsets : builds'[o] <= 1 /\ (builds'[o] = 1 <=> o \in DOMAIN cache')
       /\ lastOp'.key # NoOffset =>
             /\ lastOp'.key \in DOMAIN cache'
             /\ lastOp'.hit <=> lastOp'.key \in DOMAIN cache
             /\ r'.status = "ok" => r'.parent = cache'[lastOp'.key].id]_vars

(* A later request for an offset found the entry the first request built. *)
C4_Witness ==
    /\ lastOp.key # NoOffset /\ lastOp.hit
    /\ builds[lastOp.key] = 1
    /\ Cardinality(DOMAIN cache) = 2
    /\ r.status = "ok" /\ r.parent = 1

(* C5: r.shift(n), n > 0, has the length of r and is r's elements from     *)
(* position n on followed by n further dates that continue past r's last   *)
(* element by r's own offset; n < 0 is the same at the head; the result's  *)
(* offset is r.offset.                                                     *)
ShiftedElement(x, n, i) ==
    LET len == Len(x.elems)
    IN  IF n > 0
        THEN IF i + n <= len THEN x.elems[i + n]
             ELSE Steps(x.offset, (i + n - len) * x.offset.n, x.elems[len])
        ELSE IF i + n >= 1 THEN x.elems[i + n]
             ELSE Steps(x.offset, (i + n - 1) * x.offset.n, x.elems[1])

C5_ShiftContinuesByOwnOffset ==
    [][(/\ lastOp'.op = "shift" /\ lastOp'.n # 0
        /\ r.status = "ok" /\ Len(r.elems) > 0)
       => /\ r'.status = "ok"
          /\ r'.offset = r.offset
          /\ Len(r'.elems) = Len(r.elems)
          /\ \A i \in 1..Len(r'.elems) :
                r'.elems[i] = ShiftedElement(r, lastOp'.n, i)]_vars

(* C6: every DateRange reached by construction, slicing (any start, stop   *)
(* and step, negative steps too) and shift has strictly increasing         *)
(* elements, each on the grid of the offset the range is tagged with.      *)
C6_IncreasingOnGrid ==
    r.status = "ok" => Increasing(r.elems) /\ OnGrid(r.elems, r.offset)

-----------------------------------------------------------------------------
(* Claim checked under SpecThreads. *)

(* C8: two threads making first-time lookups for the same offset: under    *)
(* every interleaving its canonical sequence is built exactly once and     *)
(* both returned ranges have that same canonical sequence as parent.       *)
C8_PopulationSerialized ==
    (/\ th[1].pc = "done" /\ th[2].pc = "done"
     /\ th[1].offset = th[2].offset)
    => /\ builds[th[1].offset] = 1
       /\ (th[1].ret.status = "ok" /\ th[2].ret.status = "ok")
             => th[1].ret.parent = th[2].ret.parent

====
